---- MODULE Spec2Model ----
(***************************************************************************)
(* Plan Bee account system: the register, login and change-tag handlers of *)
(* backend/routes/auth.js over the User collection of models/User.js.      *)
(*                                                                         *)
(* Strings are sequences of one-character strings, so that the schema's    *)
(* lowercase/trim setters and the handlers' length and pattern checks are  *)
(* computed, not assumed.  A Date is an integer count of clock ticks since *)
(* 1970-01-01, TicksPerDay ticks to the day; the calendar arithmetic of    *)
(* Date.prototype.setMonth (day-of-month overflow rolls into the following *)
(* month, the time of day is kept) is computed on it, in a local time      *)
(* without daylight-saving shifts.                                         *)
(*                                                                         *)
(* A handler runs from one await to the next as one step; the handlers     *)
(* suspended at an await form a bag, since nothing tells two of them in    *)
(* the same position apart.  The response a step sends is visible in the   *)
(* state that step leaves, and only there.                                 *)
(***************************************************************************)
EXTENDS Integers, Sequences, FiniteSets, Bags, TLC

\* ------------------------------------------------------------------ bounds
TicksPerDay == 2
NumSlots == 2
MaxAdvances == 1
MaxRequests == 2
MaxTokenRequests == 3
StartDay == 20057
JumpDays == 95
CalFirstDay == 19662
CalDays == 430
CalSpan == 126

\* ------------------------------------------------------- calendar of Date
\* Day number (days since 1970-01-01) of the civil date y-m-d, m in 1..12.
DayFromCivil(y, m, d) ==
  LET yy  == IF m <= 2 THEN y - 1 ELSE y
      era == yy \div 400
      yoe == yy - era * 400
      mp  == IF m > 2 THEN m - 3 ELSE m + 9
      doy == (153 * mp + 2) \div 5 + d - 1
      doe == yoe * 365 + yoe \div 4 - yoe \div 100 + doy
  IN  era * 146097 + doe - 719468

\* The civil date <<y, m, d>> of a day number.
CivilFromDay(z) ==
  LET zz  == z + 719468
      era == zz \div 146097
      doe == zz - era * 146097
      yoe == (doe - doe \div 1460 + doe \div 36524 - doe \div 146096) \div 365
      doy == doe - (365 * yoe + yoe \div 4 - yoe \div 100)
      mp  == (5 * doy + 2) \div 153
      d   == doy - (153 * mp + 2) \div 5 + 1
      m   == IF mp < 10 THEN mp + 3 ELSE mp - 9
      y   == yoe + era * 400 + (IF m <= 2 THEN 1 ELSE 0)
  IN  <<y, m, d>>

DayOf(t) == t \div TicksPerDay
TimeOfDay(t) == t % TicksPerDay

\* Date.prototype.getMonth: 0-based month of the date.
GetMonth(t) == CivilFromDay(DayOf(t))[2] - 1

\* ECMAScript MakeDay: the month may lie outside 0..11 and the date outside
\* the month; both carry over.
MakeDay(year, month, date) ==
  LET ym == year + (month \div 12)
      mn == month % 12
  IN  DayFromCivil(ym, mn + 1, 1) + date - 1

\* Date.prototype.setMonth(month): same year field, day of month and time of
\* day, the month replaced.
SetMonth(t, month) ==
  LET c == CivilFromDay(DayOf(t))
  IN  MakeDay(c[1], month, c[3]) * TicksPerDay + TimeOfDay(t)

\* Date.prototype.toDateString: the calendar day, without the time of day.
ToDateString(t) == CivilFromDay(DayOf(t))

\* ---------------------------------------------------------------- strings
Undefined == <<"<undefined>">>
Null == <<"<null>">>

LowerAlpha == {"a", "b", "c", "d", "e", "f", "i", "n", "o", "u", "x", "y", "z"}
UpperAlpha == {"A", "B", "C"}
Digits == {"0", "1", "2"}

\* String.prototype.toLowerCase on one character.
LowerChar(c) ==
  CASE c = "A" -> "a"
    [] c = "B" -> "b"
    [] c = "C" -> "c"
    [] OTHER -> c

ToLowerCase(s) == [i \in 1..Len(s) |-> LowerChar(s[i])]

RECURSIVE TrimStart(_)
TrimStart(s) ==
  IF s # <<>> /\ Head(s) = " " THEN TrimStart(Tail(s)) ELSE s

RECURSIVE TrimEnd(_)
TrimEnd(s) ==
  IF s # <<>> /\ s[Len(s)] = " " THEN TrimEnd(SubSeq(s, 1, Len(s) - 1)) ELSE s

\* String.prototype.trim.
Trim(s) == TrimEnd(TrimStart(s))

\* String(value), as RegExp.prototype.test applies it to its argument.
StringOf(s) ==
  IF s = Undefined THEN <<"u", "n", "d", "e", "f", "i", "n", "e", "d">> ELSE s

\* /^[a-zA-Z0-9_]+$/.test(value)
TagPatternTest(s) ==
  LET str == StringOf(s)
  IN  /\ Len(str) >= 1
      /\ \A i \in 1..Len(str) :
           str[i] \in LowerAlpha \cup UpperAlpha \cup Digits \cup {"_"}

\* JavaScript truthiness of a request field: undefined and "" are falsy.
Truthy(s) == s # Undefined /\ s # <<>>

\* ----------------------------------------------------- the User schema
MinPasswordLength == 6
MinTagLength == 3
MaxTagLength == 30
MaxUsernameLength == 30
CooldownMonths == 3
TokenDays == 7

\* Setters of the schema paths: they run when a path is set on a document
\* and when a query filter on the path is cast.
EmailSetter(s) == IF s = Undefined THEN s ELSE Trim(ToLowerCase(s))
TagSetter(s) == IF s = Undefined THEN s ELSE Trim(s)
UsernameSetter(s) == IF s = Undefined THEN s ELSE Trim(s)

ZeroStats ==
  [totalTasksCompleted |-> 0, currentStreak |-> 0,
   highestStreak |-> 0, totalPoints |-> 0]

NoDoc ==
  [id |-> 0, email |-> <<>>, password |-> <<>>, tag |-> <<>>,
   username |-> <<>>, tagLastChanged |-> 0, createdAt |-> 0,
   profilePicture |-> Null, stats |-> ZeroStats]

\* new User({email, password, username, tag}) at time now: setters applied,
\* defaults filled in.  The _id is unique to the document.
NewUser(id, b, now) ==
  [id |-> id, email |-> EmailSetter(b.email), password |-> b.password,
   tag |-> TagSetter(b.tag), username |-> UsernameSetter(b.username),
   tagLastChanged |-> now, createdAt |-> now,
   profilePicture |-> Null, stats |-> ZeroStats]

\* Schema validation run by save() before the pre('save') hook.
ValidateUser(d) ==
  /\ Truthy(d.email)
  /\ Truthy(d.password) /\ Len(d.password) >= MinPasswordLength
  /\ Truthy(d.tag) /\ TagPatternTest(d.tag)
  /\ Len(d.tag) >= MinTagLength /\ Len(d.tag) <= MaxTagLength
  /\ Truthy(d.username) /\ Len(d.username) <= MaxUsernameLength

\* bcrypt.hash(password, salt) and bcrypt.compare(candidate, hash).
Salts == {"s1"}
BcryptHash(pw, salt) == <<"$2a$10$", salt>> \o pw
BcryptCompare(candidate, hash) ==
  /\ Len(hash) >= 2
  /\ BcryptHash(candidate, hash[2]) = hash

\* pre('save'): the password is hashed only when the path was modified.
PreSave(d, passwordModified, salt) ==
  IF passwordModified THEN [d EXCEPT !.password = BcryptHash(d.password, salt)]
  ELSE d

\* userSchema.methods.comparePassword
ComparePassword(d, candidate) == BcryptCompare(candidate, d.password)

\* A cooldown that also passes at exactly three months.
CanChangeTagInclusive(d, now) ==
  d.tagLastChanged <= SetMonth(now, GetMonth(now) - CooldownMonths)

\* userSchema.methods.canChangeTag at time now.
CanChangeTag(d, now) ==
  LET threeMonthsAgo == SetMonth(now, GetMonth(now) - CooldownMonths)
  IN  d.tagLastChanged < threeMonthsAgo

\* nextChangeDate of the 403 answer.
NextChangeDate(d) ==
  SetMonth(d.tagLastChanged, GetMonth(d.tagLastChanged) + CooldownMonths)

\* ------------------------------------------------------------------ tokens
NoToken == [userId |-> 0, exp |-> 0, sig |-> "none"]

\* A token whose payload names the first account whoever it is issued to.
JwtSignFirst(userId, now) ==
  [userId |-> 1, exp |-> now + TokenDays * TicksPerDay, sig |-> "valid"]

\* jwt.sign({userId}, secret, {expiresIn: '7d'}) at time now.
JwtSign(userId, now) ==
  [userId |-> userId, exp |-> now + TokenDays * TicksPerDay, sig |-> "valid"]

\* jwt.verify(token, secret) at time now: TRUE when it returns the payload,
\* FALSE when it throws (malformed token, signature mismatch, expiry).
JwtVerify(tok, now) == tok.sig = "valid" /\ now < tok.exp

\* An Authorization header: the number of space-separated words and, when
\* there are two, the second.
NoAuthHeader == [words |-> 0, token |-> NoToken]
SchemeOnly == [words |-> 1, token |-> NoToken]
Bearer(tok) == [words |-> 2, token |-> tok]

\* req.headers.authorization?.split(' ')[1] is undefined
TokenMissing(auth) == auth.words < 2

\* --------------------------------------------------------------- responses
NoProfile ==
  [id |-> 0, email |-> <<>>, tag |-> <<>>, username |-> <<>>,
   profilePicture |-> Null, stats |-> ZeroStats]

NoResp ==
  [status |-> 0, success |-> FALSE, message |-> "", token |-> NoToken,
   user |-> NoProfile, oldTag |-> <<>>, newTag |-> <<>>, date |-> <<>>]

\* res.status(status).json({success: false, message})
Failure(status, message) ==
  [NoResp EXCEPT !.status = status, !.message = message]

\* userResponse: the public projection of a document.
UserResponse(d) ==
  [id |-> d.id, email |-> d.email, tag |-> d.tag, username |-> d.username,
   profilePicture |-> d.profilePicture, stats |-> d.stats]

AuthSuccess(status, message, tok, d) ==
  [NoResp EXCEPT !.status = status, !.success = TRUE, !.message = message,
                 !.token = tok, !.user = UserResponse(d)]

\* ------------------------------------------------------------------- state
NoReq ==
  [op |-> "none", email |-> Undefined, password |-> Undefined,
   tag |-> Undefined, username |-> Undefined, identifier |-> Undefined,
   newTag |-> Undefined, auth |-> NoAuthHeader, at |-> 0]

NoLast == [req |-> NoReq, resp |-> NoResp, cause |-> "none"]

VARIABLES
  users,    \* the User collection, in insertion order; users[i].id = i
  history,  \* history[i]: the values of users[i].tagLastChanged, as persisted
  held,     \* held[i]: the token last issued for account i (client storage)
  clock,    \* Date.now()
  inflight, \* the bag of handlers suspended at an await: [pc, req, doc, oldTag]
  last,     \* the response the step just taken sent, if any: [req, resp, cause]
  arrived   \* the number of requests received

vars == <<users, history, held, clock, inflight, last, arrived>>

StartTime == StartDay * TicksPerDay
JumpTicks == JumpDays * TicksPerDay

Ids == 1..Len(users)

\* ------------------------------------------------------------------ store
\* Model.findOne({email}): the filter is cast by the path's setter.
FindByEmail(email) == {i \in Ids : users[i].email = EmailSetter(email)}

\* Model.findOne({tag})
FindByTag(tag) == {i \in Ids : users[i].tag = TagSetter(tag)}

\* userSchema.statics.isTagAvailable
IsTagAvailable(tag) == FindByTag(tag) = {}

\* Model.findOne({$or: [{email: identifier}, {tag: identifier}]}): the
\* documents that match; the store returns any one of them.
FindByEmailOrTag(identifier) ==
  FindByEmail(identifier) \cup FindByTag(identifier)

\* Model.findById
FindById(id) == {i \in Ids : users[i].id = id}

\* A store without the unique index on email.
NoEmailIndex(d) == TRUE

\* email: {unique: true}: no other document holds the email of d.
EmailIndexAccepts(d) ==
  \A i \in Ids : users[i].id # d.id => users[i].email # d.email

\* A store without the unique index on tag.
NoTagIndex(d) == TRUE

\* tag: {unique: true}: no other document holds the tag of d.
TagIndexAccepts(d) ==
  \A i \in Ids : users[i].id # d.id => users[i].tag # d.tag

\* A write of document d is accepted only under both unique indexes.
IndexAccepts(d) == EmailIndexAccepts(d) /\ TagIndexAccepts(d)

\* ------------------------------------------------------------------ inputs
Secret == <<"s", "e", "c", "r", "e", "t">>
Hunter2 == <<"h", "u", "n", "t", "e", "r", "2">>
Tags == {<<"a", "b", "c">>, <<"x", "y", "z">>}
Bee == <<"B", "e", "e">>

\* The people who register: an email as typed and the password that goes
\* with it.  Two of them type the same address in different letter case;
\* the address "abc" is also a well-formed tag.
People ==
  {[email |-> <<"a", "b", "c">>, password |-> Secret],
   [email |-> <<"A", "b", "c", " ">>, password |-> Secret],
   [email |-> <<"x", "@", "y">>, password |-> Hunter2]}

RegisterBodies ==
  {[NoReq EXCEPT !.op = "register", !.email = who.email,
                 !.password = who.password, !.tag = t, !.username = Bee] :
     who \in People, t \in Tags}

LoginBodies ==
  {[NoReq EXCEPT !.op = "login", !.identifier = i, !.password = pw] :
     i \in {<<"a", "b", "c">>, <<"x", "@", "y">>, <<"x", "y", "z">>},
     pw \in {Secret, Hunter2}}

\* The headers a client can send: none, a scheme without a token, the token
\* it holds, that token with its signature altered, a string that is no
\* token, and a token signed with the fallback secret for an unknown id.
BadAuthHeaders ==
  {NoAuthHeader, SchemeOnly,
   Bearer([userId |-> 0, exp |-> 0, sig |-> "malformed"]),
   Bearer(JwtSign(0, clock))}
  \cup {Bearer([held[i] EXCEPT !.sig = "forged"]) : i \in Ids}

ChangeTagBodies ==
  {[NoReq EXCEPT !.op = "changeTag", !.auth = Bearer(held[i]), !.newTag = t] :
     i \in Ids, t \in Tags}
  \cup {[NoReq EXCEPT !.op = "changeTag", !.auth = a,
                      !.newTag = <<"x", "y", "z">>] : a \in BadAuthHeaders}

\* ------------------------------------------------------------------- steps
\* The collection the server finds when it starts: empty, or holding accounts
\* registered JumpDays days earlier whose owners hold a token just issued.
Established(b, id) ==
  PreSave(NewUser(id, b, StartTime - JumpTicks), TRUE, "s1")

Alice ==
  [NoReq EXCEPT !.op = "register", !.email = <<"x", "@", "y">>,
                !.password = Hunter2, !.tag = <<"x", "y", "z">>,
                !.username = Bee]
Bob ==
  [NoReq EXCEPT !.op = "register", !.email = <<"a", "b", "c">>,
                !.password = Secret, !.tag = <<"n", "e", "w">>,
                !.username = Bee]

Collections ==
  {<<>>, <<Established(Alice, 1)>>,
   <<Established(Alice, 1), Established(Bob, 2)>>}

Init ==
  /\ users \in Collections
  /\ history = [i \in 1..Len(users) |-> <<users[i].tagLastChanged>>]
  /\ held = [i \in 1..Len(users) |-> JwtSign(i, StartTime)]
  /\ clock = StartTime
  /\ inflight = EmptyBag
  /\ last = NoLast
  /\ arrived = 0

Handler(pc, req, doc, oldTag) ==
  [pc |-> pc, req |-> req, doc |-> doc, oldTag |-> oldTag]

Suspended(l) == {h \in BagToSet(inflight) : h.pc = l}

\* A handler sends response r for request b from return statement c.
Respond(b, r, c) == last' = [req |-> b, resp |-> r, cause |-> c]

\* A new handler suspends at its first await.
Start(h) ==
  /\ inflight' = inflight (+) SetToBag({h})
  /\ last' = NoLast

\* Handler h resumes and suspends again as h2.
Await(h, h2) ==
  /\ inflight' = (inflight (-) SetToBag({h})) (+) SetToBag({h2})
  /\ last' = NoLast

\* Handler h resumes and returns.
Return(h) == inflight' = inflight (-) SetToBag({h})


\* A register handler that checks the length of the tag before its pattern.
RegisterBeginLengthFirst(b) ==
  /\ UNCHANGED <<users, history, held, clock>>
  /\ IF ~Truthy(b.email) \/ ~Truthy(b.password) \/ ~Truthy(b.tag)
          \/ ~Truthy(b.username)
       THEN /\ Respond(b, Failure(400,
                 "Email, password, tag, and username are required"),
                 "reg_required")
            /\ UNCHANGED inflight
     ELSE IF Len(b.password) < MinPasswordLength
       THEN /\ Respond(b, Failure(400,
                 "Password must be at least 6 characters long"), "reg_password")
            /\ UNCHANGED inflight
     ELSE IF Len(b.tag) < MinTagLength \/ Len(b.tag) > MaxTagLength
       THEN /\ Respond(b, Failure(400,
                 "Tag must be between 3 and 30 characters"), "reg_length")
            /\ UNCHANGED inflight
     ELSE IF ~TagPatternTest(b.tag)
       THEN /\ Respond(b, Failure(400,
                 "Tag can only contain letters, numbers, and underscores"),
                 "reg_pattern")
            /\ UNCHANGED inflight
     ELSE IF FindByEmail(b.email) # {}
       THEN /\ Respond(b, Failure(400,
                 "User with this email already exists"), "reg_email")
            /\ UNCHANGED inflight
     ELSE Start(Handler("reg_tag", b, NoDoc, <<>>))

\* POST /register up to the answer of User.findOne({email}).
RegisterBegin(b) ==
  /\ UNCHANGED <<users, history, held, clock>>
  /\ IF ~Truthy(b.email) \/ ~Truthy(b.password) \/ ~Truthy(b.tag)
          \/ ~Truthy(b.username)
       THEN /\ Respond(b, Failure(400,
                 "Email, password, tag, and username are required"),
                 "reg_required")
            /\ UNCHANGED inflight
     ELSE IF Len(b.password) < MinPasswordLength
       THEN /\ Respond(b, Failure(400,
                 "Password must be at least 6 characters long"), "reg_password")
            /\ UNCHANGED inflight
     ELSE IF ~TagPatternTest(b.tag)
       THEN /\ Respond(b, Failure(400,
                 "Tag can only contain letters, numbers, and underscores"),
                 "reg_pattern")
            /\ UNCHANGED inflight
     ELSE IF Len(b.tag) < MinTagLength \/ Len(b.tag) > MaxTagLength
       THEN /\ Respond(b, Failure(400,
                 "Tag must be between 3 and 30 characters"), "reg_length")
            /\ UNCHANGED inflight
     ELSE IF FindByEmail(b.email) # {}
       THEN /\ Respond(b, Failure(400,
                 "User with this email already exists"), "reg_email")
            /\ UNCHANGED inflight
     ELSE Start(Handler("reg_tag", b, NoDoc, <<>>))

\* POST /register from the answer of User.isTagAvailable(tag) to the call of
\* user.save(): the document is constructed, its defaults stamped.
RegisterTag(h) ==
  /\ h.pc = "reg_tag"
  /\ UNCHANGED <<users, history, held, clock>>
  /\ IF ~IsTagAvailable(h.req.tag)
       THEN /\ Respond(h.req, Failure(400, "This tag is already taken"),
                       "reg_tag")
            /\ Return(h)
       ELSE Await(h, [h EXCEPT !.pc = "reg_save",
                               !.doc = NewUser(0, h.req, clock)])

\* POST /register from user.save() to the response: validation, the
\* pre('save') hook, the insert under the unique indexes, the token.
RegisterSave(h) ==
  /\ h.pc = "reg_save"
  /\ UNCHANGED clock
  /\ Return(h)
  /\ IF ~ValidateUser(h.doc)
       THEN /\ Respond(h.req, Failure(500, "Server error during registration"),
                       "reg_catch_validation")
            /\ UNCHANGED <<users, history, held>>
       ELSE \E salt \in Salts :
         LET d == [PreSave(h.doc, TRUE, salt) EXCEPT !.id = Len(users) + 1]
         IN  IF ~IndexAccepts(d)
               THEN /\ Respond(h.req, Failure(500,
                         "Server error during registration"),
                         "reg_catch_duplicate")
                    /\ UNCHANGED <<users, history, held>>
               ELSE /\ users' = Append(users, d)
                    /\ history' = Append(history, <<d.tagLastChanged>>)
                    /\ held' = Append(held, JwtSign(d.id, clock))
                    /\ Respond(h.req, AuthSuccess(201,
                         "User registered successfully",
                         JwtSign(d.id, clock), d), "reg_created")

\* The two refusals of POST /login.
NoUserResponse == Failure(400, "Invalid credentials")

\* A refusal that tells the caller the account exists.
WrongPasswordResponse == Failure(401, "Wrong password")

BadPasswordResponse == Failure(400, "Invalid credentials")

\* POST /login.  The handler writes nothing to the collection, so its
\* lookup, its password comparison and its response are one step.
Login(b) ==
  /\ UNCHANGED <<users, history, clock, inflight>>
  /\ IF ~Truthy(b.identifier) \/ ~Truthy(b.password)
       THEN /\ Respond(b, Failure(400,
                 "Identifier (email or tag) and password are required"),
                 "login_required")
            /\ UNCHANGED held
     ELSE IF FindByEmailOrTag(b.identifier) = {}
       THEN /\ Respond(b, NoUserResponse, "login_no_user")
            /\ UNCHANGED held
     ELSE \E i \in FindByEmailOrTag(b.identifier) :
            IF ~ComparePassword(users[i], b.password)
              THEN /\ Respond(b, BadPasswordResponse, "login_bad_password")
                   /\ UNCHANGED held
              ELSE /\ Respond(b, AuthSuccess(200, "Login successful",
                        JwtSign(users[i].id, clock), users[i]), "login_ok")
                   /\ held' = [held EXCEPT ![i] = JwtSign(users[i].id, clock)]

\* POST /change-tag up to the call of User.isTagAvailable: the token, the
\* account, the cooldown and the checks of newTag.
ChangeTagBegin(b) ==
  LET found == FindById(b.auth.token.userId)
      newTag == b.newTag
  IN
  /\ UNCHANGED <<users, history, held, clock>>
  /\ IF TokenMissing(b.auth)
       THEN /\ Respond(b, Failure(401, "No token provided"), "ct_no_token")
            /\ UNCHANGED inflight
     ELSE IF ~JwtVerify(b.auth.token, clock)
       THEN /\ Respond(b, Failure(500, "Server error during tag change"),
                       "ct_catch_verify")
            /\ UNCHANGED inflight
     ELSE IF found = {}
       THEN /\ Respond(b, Failure(401, "Invalid token"), "ct_no_user")
            /\ UNCHANGED inflight
     ELSE \E i \in found :
            IF ~CanChangeTag(users[i], clock)
              THEN /\ Respond(b,
                        [Failure(403, "Tag can only be changed every 3 months. Next change allowed on")
                           EXCEPT !.date = ToDateString(NextChangeDate(users[i]))],
                        "ct_cooldown")
                   /\ UNCHANGED inflight
            ELSE IF ~TagPatternTest(newTag)
              THEN /\ Respond(b, Failure(400,
                        "Tag can only contain letters, numbers, and underscores"),
                        "ct_pattern")
                   /\ UNCHANGED inflight
            ELSE IF newTag = Undefined
              THEN /\ Respond(b, Failure(500, "Server error during tag change"),
                        "ct_catch_type")
                   /\ UNCHANGED inflight
            ELSE IF Len(newTag) < MinTagLength \/ Len(newTag) > MaxTagLength
              THEN /\ Respond(b, Failure(400,
                        "Tag must be between 3 and 30 characters"), "ct_length")
                   /\ UNCHANGED inflight
            ELSE Start(Handler("ct_avail", b, users[i], <<>>))

\* POST /change-tag from the answer of User.isTagAvailable(newTag) to the
\* call of user.save(): the document is changed in memory and stamped.
ChangeTagAvail(h) ==
  /\ h.pc = "ct_avail"
  /\ UNCHANGED <<users, history, held, clock>>
  /\ IF ~IsTagAvailable(h.req.newTag)
       THEN /\ Respond(h.req, Failure(400, "This tag is already taken"),
                       "ct_taken")
            /\ Return(h)
       ELSE Await(h, [h EXCEPT !.pc = "ct_save",
                               !.oldTag = h.doc.tag,
                               !.doc.tag = TagSetter(h.req.newTag),
                               !.doc.tagLastChanged = clock])

\* An update that sets the tag and leaves the stamp of the last change.
SetTagOnly(stored, d) == [stored EXCEPT !.tag = d.tag]

\* The update user.save() sends for a loaded document: the modified paths
\* tag and tagLastChanged are $set on the stored document of the same _id.
SetModified(stored, d) ==
  [stored EXCEPT !.tag = d.tag, !.tagLastChanged = d.tagLastChanged]

\* POST /change-tag from user.save() to the response.
ChangeTagSave(h) ==
  /\ h.pc = "ct_save"
  /\ UNCHANGED <<held, clock>>
  /\ Return(h)
  /\ \E salt \in Salts :
       LET d == PreSave(h.doc, FALSE, salt)
           i == d.id
       IN  IF ~ValidateUser(d) \/ ~IndexAccepts(d)
             THEN /\ Respond(h.req, Failure(500,
                       "Server error during tag change"), "ct_catch_save")
                  /\ UNCHANGED <<users, history>>
             ELSE /\ users' = [users EXCEPT ![i] = SetModified(users[i], d)]
                  /\ history' = [history EXCEPT
                                   ![i] = Append(history[i], d.tagLastChanged)]
                  /\ Respond(h.req, [NoResp EXCEPT !.status = 200,
                        !.success = TRUE,
                        !.message = "Tag changed successfully",
                        !.oldTag = h.oldTag, !.newTag = d.tag], "ct_changed")

\* Time passes: by one tick, or by JumpDays days.
Advances ==
  ((clock - StartTime) % JumpTicks) + ((clock - StartTime) \div JumpTicks)

Tick ==
  /\ Advances < MaxAdvances
  /\ clock' = clock + 1
  /\ last' = NoLast
  /\ UNCHANGED <<users, history, held, inflight>>

Jump ==
  /\ Advances < MaxAdvances
  /\ clock' = clock + JumpTicks
  /\ last' = NoLast
  /\ UNCHANGED <<users, history, held, inflight>>

\* A request arrives while fewer than NumSlots handlers are suspended.
CanAccept == BagCardinality(inflight) < NumSlots /\ arrived < MaxRequests

\* Request b, received now.
At(b) == [b EXCEPT !.at = clock]

Arrive == arrived' = arrived + 1
Resume == UNCHANGED arrived

Next ==
  \/ \E b \in RegisterBodies : CanAccept /\ RegisterBegin(At(b)) /\ Arrive
  \/ \E h \in BagToSet(inflight) : RegisterTag(h) /\ Resume
  \/ \E h \in BagToSet(inflight) : RegisterSave(h) /\ Resume
  \/ \E b \in LoginBodies : CanAccept /\ Login(At(b)) /\ Arrive
  \/ \E b \in ChangeTagBodies : CanAccept /\ ChangeTagBegin(At(b)) /\ Arrive
  \/ \E h \in BagToSet(inflight) : ChangeTagAvail(h) /\ Resume
  \/ \E h \in BagToSet(inflight) : ChangeTagSave(h) /\ Resume
  \/ Tick /\ Resume
  \/ Jump /\ Resume

Spec == Init /\ [][Next]_vars

\* ---------------------------------------------- the cooldown, date by date
\* One account whose tagLastChanged is any instant of CalDays days from
\* CalFirstDay on, and a single change-tag request with its fresh token and a
\* free tag, received at any instant up to CalSpan days later.
CalTimes == 0..(TicksPerDay - 1)

InitCal ==
  \E d \in CalFirstDay..(CalFirstDay + CalDays) : \E span \in 0..CalSpan :
  \E t0 \in CalTimes : \E t1 \in CalTimes :
    LET changed == d * TicksPerDay + t0
        now == (d + span) * TicksPerDay + t1
    IN  /\ changed <= now
        /\ users = <<[Established(Alice, 1) EXCEPT !.tagLastChanged = changed,
                                                   !.createdAt = changed]>>
        /\ history = <<<<changed>>>>
        /\ held = <<JwtSign(1, now)>>
        /\ clock = now
        /\ inflight = EmptyBag
        /\ last = NoLast
        /\ arrived = 0

CalBodies ==
  {[NoReq EXCEPT !.op = "changeTag", !.auth = Bearer(held[1]),
                 !.newTag = <<"a", "b", "c">>]}

NextCal ==
  \/ \E b \in CalBodies : arrived = 0 /\ ChangeTagBegin(At(b)) /\ Arrive
  \/ \E h \in BagToSet(inflight) : ChangeTagAvail(h) /\ Resume
  \/ \E h \in BagToSet(inflight) : ChangeTagSave(h) /\ Resume

SpecCal == InitCal /\ [][NextCal]_vars

\* ------------------------------------------------ ill-formed requests
\* Requests with missing, short, ill-formed and over-long fields, one at a
\* time, against each of the collections.
LongString == [i \in 1..(MaxTagLength + 1) |-> "a"]

InputEmails == {Undefined, <<>>, <<" ">>, <<"x", "@", "y">>, <<"n", "@", "w">>}
InputPasswords == {Undefined, <<"p", "w">>, Secret}
InputTags ==
  {Undefined, <<"a", "b">>, <<"a", "!">>, <<"a", "!", "c">>, LongString,
   <<"x", "y", "z">>, <<"a", "b", "c">>}
InputUsernames == {Undefined, Bee, LongString}

InputRegisterBodies ==
  {[NoReq EXCEPT !.op = "register", !.email = e, !.password = pw,
                 !.tag = t, !.username = u] :
     e \in InputEmails, pw \in InputPasswords, t \in InputTags,
     u \in InputUsernames}

InputChangeTagBodies ==
  {[NoReq EXCEPT !.op = "changeTag", !.auth = Bearer(held[i]), !.newTag = t] :
     i \in Ids, t \in InputTags \cup {<<>>}}

\* A request arrives when no handler is suspended.
CanAcceptAlone == inflight = EmptyBag /\ arrived < MaxRequests

NextInput ==
  \/ \E b \in InputRegisterBodies :
       CanAcceptAlone /\ RegisterBegin(At(b)) /\ Arrive
  \/ \E h \in BagToSet(inflight) : RegisterTag(h) /\ Resume
  \/ \E h \in BagToSet(inflight) : RegisterSave(h) /\ Resume
  \/ \E b \in InputChangeTagBodies :
       CanAcceptAlone /\ ChangeTagBegin(At(b)) /\ Arrive
  \/ \E h \in BagToSet(inflight) : ChangeTagAvail(h) /\ Resume
  \/ \E h \in BagToSet(inflight) : ChangeTagSave(h) /\ Resume

SpecInput == Init /\ [][NextInput]_vars

\* ------------------------------------------------- tokens, over three requests
\* Registrations and tag changes by the holders of tokens the server issued,
\* up to MaxTokenRequests requests, one handled after the other.
TokenBodies ==
  {[NoReq EXCEPT !.op = "changeTag", !.auth = Bearer(held[i]), !.newTag = t] :
     i \in Ids, t \in Tags \cup {<<"b", "e", "e">>}}

CanAcceptToken == inflight = EmptyBag /\ arrived < MaxTokenRequests

NextToken ==
  \/ \E b \in RegisterBodies : CanAcceptToken /\ RegisterBegin(At(b)) /\ Arrive
  \/ \E h \in BagToSet(inflight) : RegisterTag(h) /\ Resume
  \/ \E h \in BagToSet(inflight) : RegisterSave(h) /\ Resume
  \/ \E b \in TokenBodies : CanAcceptToken /\ ChangeTagBegin(At(b)) /\ Arrive
  \/ \E h \in BagToSet(inflight) : ChangeTagAvail(h) /\ Resume
  \/ \E h \in BagToSet(inflight) : ChangeTagSave(h) /\ Resume
  \/ Tick /\ Resume
  \/ Jump /\ Resume

SpecToken == Init /\ [][NextToken]_vars

TypeOK ==
  /\ \A i \in Ids : users[i].id = i
  /\ Len(history) = Len(users) /\ Len(held) = Len(users)
  /\ BagCardinality(inflight) <= NumSlots

\* ------------------------------------------------------------- properties
\* C1: no two persisted accounts have the same lowercased, trimmed email,
\* whatever the interleaving of register and change-tag handlers.
C1_EmailUnique ==
  \A i, j \in Ids :
    i # j => EmailSetter(users[i].email) # EmailSetter(users[j].email)

\* A register handler that passed the email lookup was refused by the index
\* because another account took the email in the meantime.
C1_Witness ==
  /\ last.cause = "reg_catch_duplicate"
  /\ FindByEmail(last.req.email) # {}
  /\ IsTagAvailable(last.req.tag)

\* C2: no two persisted accounts have the same tag, whatever the
\* interleaving of register and change-tag handlers.
C2_TagUnique ==
  \A i, j \in Ids : i # j => users[i].tag # users[j].tag

\* A change-tag handler that passed isTagAvailable was refused by the index
\* because another account took the tag in the meantime.
C2_Witness ==
  /\ last.cause = "ct_catch_save"
  /\ ~IsTagAvailable(last.req.newTag)

\* C3: a well-formed register request that creates no account because its
\* email is held is answered 400 'User with this email already exists', and
\* one that creates no account because its tag is held is answered 400
\* 'This tag is already taken'.
C3_DuplicateIs400 ==
  (last.req.op = "register" /\ last.resp.status # 201) =>
    /\ (FindByEmail(last.req.email) # {} /\ IsTagAvailable(last.req.tag)) =>
         last.resp = Failure(400, "User with this email already exists")
    /\ (FindByEmail(last.req.email) = {} /\ ~IsTagAvailable(last.req.tag)) =>
         last.resp = Failure(400, "This tag is already taken")

\* C4: every refused login with a non-empty identifier and password, whether
\* no account matched or the password was wrong, gets the same response:
\* status 400, {success: false, message: 'Invalid credentials'}.
C4_SameRefusal ==
  (/\ last.req.op = "login"
   /\ Truthy(last.req.identifier) /\ Truthy(last.req.password)
   /\ last.resp.status # 200) =>
    last.resp = Failure(400, "Invalid credentials")

\* A login for an existing account with a wrong password was refused.
C4_Witness ==
  /\ last.cause = "login_bad_password"
  /\ \E i \in FindByEmailOrTag(last.req.identifier) :
       ~ComparePassword(users[i], last.req.password)

\* C5: login with the email or the tag of an account and that account's
\* password succeeds and returns that account's public profile.
C5_LoginFindsAccount ==
  last.req.op = "login" =>
    \A i \in Ids :
      (/\ last.req.identifier \in {users[i].email, users[i].tag}
       /\ ComparePassword(users[i], last.req.password)) =>
        /\ last.resp.status = 200
        /\ last.resp.user = UserResponse(users[i])

\* C6: a change-tag request whose token is missing, malformed, wrongly
\* signed or expired on arrival is answered 401.
C6_BadTokenIs401 ==
  (/\ last.req.op = "changeTag"
   /\ \/ TokenMissing(last.req.auth)
      \/ ~JwtVerify(last.req.auth.token, last.req.at)) =>
    last.resp.status = 401

\* b lies more than three calendar months after a.
MoreThanThreeMonths(a, b) == a < SetMonth(b, GetMonth(b) - CooldownMonths)

\* C7: the registration and the successful tag changes of an account are
\* pairwise more than three calendar months apart.
C7_ChangesApart ==
  \A i \in Ids :
    \A j, k \in 1..Len(history[i]) :
      j < k => MoreThanThreeMonths(history[i][j], history[i][k])

\* C10: the persisted tagLastChanged of an account never decreases.
C10_NeverBackward ==
  [][\A i \in Ids : users'[i].tagLastChanged >= users[i].tagLastChanged]_vars

\* The cooldown check of the request of SpecCal refused it, or let it pass.
Refused == last.cause = "ct_cooldown"
Passed == Suspended("ct_avail") # {}

OneDay == TicksPerDay
MonthsBefore(t, n) == SetMonth(t, GetMonth(t) - n)
MonthsAfter(t, n) == SetMonth(t, GetMonth(t) + n)

\* C8: the cooldown check refuses exactly when tagLastChanged is not
\* strictly earlier than now minus three calendar months; a tagLastChanged
\* three months and one day in the past passes and one two months in the
\* past is refused, counting the months back from now or forward from
\* tagLastChanged, on every date.
C8_Cooldown ==
  (Refused \/ Passed) =>
    LET changed == users[1].tagLastChanged
    IN  /\ Refused <=> ~(changed < MonthsBefore(clock, 3))
        /\ Refused => last.resp.status = 403
        /\ changed = MonthsBefore(clock, 3) - OneDay => Passed
        /\ clock = MonthsAfter(changed, 3) + OneDay => Passed
        /\ changed = MonthsBefore(clock, 2) => Refused
        /\ clock = MonthsAfter(changed, 2) => Refused

\* On the 31st of a month whose third month back is shorter, a request made
\* three months and one day after tagLastChanged passed the cooldown.
C8_Witness ==
  /\ Passed
  /\ CivilFromDay(DayOf(clock))[3] = 31
  /\ CivilFromDay(DayOf(MonthsBefore(clock, 3)))[3] # 31
  /\ users[1].tagLastChanged = MonthsBefore(clock, 3) - OneDay

\* C9: the date a 403 reports is tagLastChanged plus three months, no
\* request is refused on a day after it, and no request passes the cooldown
\* on a day before it.
C9_ExactDate ==
  /\ Refused =>
       /\ last.resp.date = ToDateString(NextChangeDate(users[1]))
       /\ DayOf(clock) <= DayOf(NextChangeDate(users[1]))
  /\ \A h \in Suspended("ct_avail") :
       DayOf(clock) >= DayOf(NextChangeDate(h.doc))

\* The checks of register in the order of the claim: the number of the
\* first one that request b fails against the collection, 0 when none does.
FirstFailedCheck(b) ==
  LET present(f) == f # Undefined /\ f # <<>>
      word(c) == c \in LowerAlpha \cup UpperAlpha \cup Digits \cup {"_"}
  IN  IF ~(present(b.email) /\ present(b.password) /\ present(b.tag)
             /\ present(b.username)) THEN 1
      ELSE IF Len(b.password) < 6 THEN 2
      ELSE IF ~(\A k \in 1..Len(b.tag) : word(b.tag[k])) THEN 3
      ELSE IF Len(b.tag) < 3 \/ Len(b.tag) > 30 THEN 4
      ELSE IF \E i \in Ids : users[i].email = Trim(ToLowerCase(b.email)) THEN 5
      ELSE IF \E i \in Ids : users[i].tag = b.tag THEN 6
      ELSE 0

CheckMessages ==
  <<"Email, password, tag, and username are required",
    "Password must be at least 6 characters long",
    "Tag can only contain letters, numbers, and underscores",
    "Tag must be between 3 and 30 characters",
    "User with this email already exists",
    "This tag is already taken">>

\* C11: a register request that fails one or more of the six checks is
\* answered 400 with the message of the first check it fails, in the order
\* fields present, password length, tag pattern, tag length, email free,
\* tag free; the six messages differ; no account is created.
C11_FirstFailureWins ==
  /\ \A m, n \in 1..6 : m # n => CheckMessages[m] # CheckMessages[n]
  /\ [][(last'.req.op = "register" /\ FirstFailedCheck(last'.req) # 0) =>
          /\ last'.resp = Failure(400, CheckMessages[FirstFailedCheck(last'.req)])
          /\ users' = users]_vars

\* A request with a tag both ill-formed and too short, a short password
\* aside, was answered with the message of the pattern check.
C11_Witness ==
  /\ last.req.op = "register"
  /\ last.req.tag = <<"a", "!">>
  /\ FirstFailedCheck(last.req) = 3
  /\ last.resp.message = CheckMessages[3]


\* The token change-tag request b carries passes jwt.verify when b arrives.
Presented(b) ==
  b.op = "changeTag" /\ ~TokenMissing(b.auth) /\ JwtVerify(b.auth.token, b.at)

\* C12: the token of a 201 names the account of the same response, which is
\* the account just created; a token presented to change-tag before its
\* expiry is resolved to the one account of its userId (the handler loads
\* that document, reports that account's next change date, and changes that
\* account alone), and the id and the email of an account never change,
\* whatever registrations and tag changes happen in between.
C12_TokenResolves ==
  /\ [](last.cause = "reg_created" =>
          LET t == last.resp.token
              u == last.resp.user
          IN  /\ t.userId = u.id
              /\ FindById(t.userId) = {Len(users)}
              /\ held[u.id] = t
              /\ UserResponse(users[u.id]) = u
              /\ users[u.id].email = EmailSetter(last.req.email)
              /\ users[u.id].createdAt >= last.req.at)
  /\ [](\A i \in Ids : held[i].userId = i /\ FindById(i) = {i})
  /\ [](\A h \in Suspended("ct_avail") \cup Suspended("ct_save") :
          Presented(h.req) =>
            /\ h.doc.id = h.req.auth.token.userId
            /\ h.doc.email = users[h.doc.id].email)
  /\ [](Presented(last.req) =>
          /\ last.cause \notin {"ct_no_token", "ct_catch_verify", "ct_no_user"}
          /\ last.cause = "ct_cooldown" =>
                last.resp.date =
                  ToDateString(NextChangeDate(users[last.req.auth.token.userId])))
  /\ [][\A i \in Ids :
          /\ users'[i].id = users[i].id
          /\ users'[i].email = users[i].email
          /\ users'[i].createdAt = users[i].createdAt
          /\ users'[i] # users[i] =>
                /\ last'.cause = "ct_changed"
                /\ Presented(last'.req)
                /\ last'.req.auth.token.userId = i]_vars

\* The token of an account registered in this run is presented after
\* another account changed its tag, and is answered with the new account's
\* cooldown.
C12_Witness ==
  /\ last.cause = "ct_cooldown"
  /\ Presented(last.req)
  /\ LET i == last.req.auth.token.userId
     IN  /\ users[i].createdAt >= StartTime
         /\ \E j \in Ids \ {i} :
               /\ Len(history[j]) > 1
               /\ history[j][2] > users[i].createdAt

\* The handlers a step suspends and the handlers it resumes.
Suspends(h) == CopiesIn(h, inflight') > CopiesIn(h, inflight)
Resumes(h) == CopiesIn(h, inflight) > CopiesIn(h, inflight')

Malformed(b) ==
  \/ /\ b.op = "register"
     /\ \/ FirstFailedCheck(b) \in 1..4
        \/ Len(b.username) > MaxUsernameLength
  \/ /\ Presented(b)
     /\ b.auth.token.userId \in Ids
     /\ CanChangeTag(users[b.auth.token.userId], b.at)
     /\ \/ b.newTag = Undefined
        \/ ~TagPatternTest(b.newTag)
        \/ Len(b.newTag) < MinTagLength
        \/ Len(b.newTag) > MaxTagLength

\* C14: a step that answers a malformed request answers 400 and leaves the
\* collection as it was.
C14_MalformedIs400 ==
  [][Malformed(last'.req) =>
       /\ last'.resp.status = 400
       /\ users' = users]_vars

\* The password account d was registered with: each person registers with
\* one password.
RegisteredPassword(d) ==
  (CHOOSE who \in People : EmailSetter(who.email) = d.email).password

\* The stored hash of every account is one hash of its registration
\* password, no step rewrites it, and the answer of a tag change carries no
\* password and no account document.
HashKept ==
  /\ [](\A i \in Ids :
          /\ \E salt \in Salts :
                users[i].password = BcryptHash(RegisteredPassword(users[i]), salt)
          /\ ComparePassword(users[i], RegisteredPassword(users[i])))
  /\ [](last.req.op = "changeTag" =>
          /\ "password" \notin DOMAIN last.resp
          /\ last.resp.user = NoProfile
          /\ last.resp.token = NoToken)
  /\ [][\A i \in Ids : users'[i].password = users[i].password]_vars

\* A tag change has succeeded and the request just answered is a login with
\* the email or the tag of account i and its registration password.
LoginAfterChange(i) ==
  /\ \E j \in Ids : Len(history[j]) > 1
  /\ last.req.op = "login"
  /\ last.req.identifier \in {users[i].email, users[i].tag}
  /\ last.req.password = RegisteredPassword(users[i])

\* C15: the stored hash is the one made at registration, a tag change
\* leaves it as it was and answers without the password or its hash, and
\* after any successful tag changes a login of any account with its
\* registration password is answered 200.
C15_PasswordKept ==
  /\ HashKept
  /\ [](\A i \in Ids : LoginAfterChange(i) => last.resp.status = 200)

====
